---- MODULE Spec2Model ----
(***************************************************************************)
(* Register-saturation scheduling preparation (ir/be/beschedrss.c):        *)
(* rss_schedule_preparation run on one basic block, register class by      *)
(* register class.  One action per function of the per-class pipeline of   *)
(* process_block.                                                          *)
(***************************************************************************)
EXTENDS Integers, Sequences, FiniteSets, TLC

\* ------------------------------------------------------------------ bounds
\* Node ids of the block are drawn from 1..MaxNodes.
MaxNodes == 5
\* Every block of at most MaxExh plain nodes is an input.
MaxExh == 1
\* Register classes of the ISA are 0..NumClasses-1.
NumClasses == 2
\* The functions on the DVG records are also run on the records of MaxVals
\* values.
MaxVals == 4

\* bsearch_for_index is run on arrays of node indices 1 .. MaxKey.
MaxKey == 3

\* A register class has the registers 1..MaxRegs.
MaxRegs == 2
\* The pass is run at most MaxRuns times on the graph.
MaxRuns == 2

\* The walker of the function call optimization visits at most MaxWalk
\* nodes of a graph; a Call through a Sel has at most MaxCallees callees.
MaxWalk == 3
MaxCallees == 2
\* The program has the graphs 1 .. MaxGraphs, with at most MaxCalls
\* operations on their memory chains altogether.
MaxGraphs == 2
MaxCalls == 2

\* ------------------------------------------------------------- node names
NULL == 0
Ids == 1 .. MaxNodes
\* The synthetic sink is created at pass entry, after every node of the
\* graph: its node index is larger than the index of every block node.
Sink == MaxNodes + 1
\* Nodes that live in other blocks (consumers outside the block).
Ext == MaxNodes + 2
Ext2 == MaxNodes + 3
\* iro_rss_last: the number of opcodes one run acquires.
iro_rss_last == 2

Recs == Ids \cup {Sink}
NoClass == -1
RegClasses == 0 .. (NumClasses - 1)
Regs == 1 .. MaxRegs

\* ------------------------------------------------------------ input blocks
\* A block: n nodes 1..n, users[i] the sources of the out edges of i (nodes
\* that use i; an edge leads from a node to a node with a larger id, so the
\* data-flow graph is acyclic), and per node its register class, its mode
\* ("D" data, "T" tuple, "X" control flow) and the ignore flag of the
\* architecture description.  twice holds the pairs <<i, u>> of a user u
\* that has i as two of its operands: i has two out edges with the source u.
EdgeUsers(E) == [i \in Ids |-> {e[2] : e \in {d \in E : d[1] = i}}]

Plain(n, E, C) ==
    [n      |-> n,
     users  |-> EdgeUsers(E),
     cls    |-> [i \in Ids |-> IF i \in DOMAIN C THEN C[i] ELSE NoClass],
     mode   |-> [i \in Ids |-> "D"],
     ignore |-> [i \in Ids \cup {Ext, Ext2} |-> FALSE],
     twice  |-> {}]

PossibleEdges(n) ==
    {e \in (1 .. n) \X (1 .. n) : e[1] < e[2]} \cup {<<i, Ext>> : i \in 1 .. n}

SmallBlocks ==
    UNION {{Plain(n, E, C) : E \in SUBSET PossibleEdges(n),
                             C \in [1 .. n -> RegClasses \cup {NoClass}]}
           : n \in 0 .. MaxExh}

\* Named blocks.  Class 0 is the class of the values below.
\* a = load; b = neg a; ret b  (the Return is a control-flow node of the
\* block, its user is the end block).
StraightLine ==
    [Plain(3, {<<1, 2>>, <<2, 3>>, <<3, Ext>>}, <<0, 0>>)
        EXCEPT !.mode = [i \in Ids |-> IF i = 3 THEN "X" ELSE "D"]]
\* a = load; b = load; c = add a, b; c is used outside the block
TwoLoads == Plain(3, {<<1, 3>>, <<2, 3>>, <<3, Ext>>}, <<0, 0, 0>>)
\* three loads feeding one consumer, which is used outside the block
ThreeLoads ==
    Plain(4, {<<1, 4>>, <<2, 4>>, <<3, 4>>, <<4, Ext>>}, <<0, 0, 0, 0>>)
\* a chain of three values
Chain3 == Plain(3, {<<1, 2>>, <<2, 3>>, <<3, Ext>>}, <<0, 0, 0>>)
\* u=1 is killed only by v=4, and v is itself a value killed by Sink
\* together with y=3; w=2 and x=5 connect the kill relation.
Overlap ==
    Plain(5, {<<1, 4>>, <<2, 4>>, <<2, 5>>, <<3, 5>>, <<3, Ext>>, <<4, Ext>>},
          <<0, 0, 0, 0>>)
\* u=1 has the potential killers 3 and 4, w=2 only 4; 4 has two descendants
TwoKillers ==
    Plain(5, {<<1, 3>>, <<1, 4>>, <<2, 4>>, <<4, 5>>, <<4, Ext>>},
          <<0, 0, NoClass, 0>>)
\* a value of class 1 and a value of class 0, both used outside the block
TwoClasses == Plain(2, {<<1, Ext>>, <<2, Ext>>}, <<1, 0>>)
\* a value of class 0 consumed by a value of class 1
CrossClass == Plain(3, {<<1, 2>>, <<2, Ext>>, <<3, Ext>>}, <<0, 1, 1>>)
\* t=2 is a tuple node consuming a=1; its Projs 3 and 4, 4 flagged ignore
TupleConsumer ==
    [Plain(4, {<<1, 2>>, <<2, 3>>, <<2, 4>>, <<3, Ext>>, <<4, Ext>>},
           <<0, NoClass, 0, 0>>)
        EXCEPT !.mode = [i \in Ids |-> IF i = 2 THEN "T" ELSE "D"],
               !.ignore = [i \in Ids \cup {Ext, Ext2} |-> i = 4]]
\* two independent values, both used outside the block
TwoIndependent == Plain(2, {<<1, Ext>>, <<2, Ext>>}, <<0, 0>>)
\* a value consumed by a node without register class (a store) and outside
\* the block; the store is used outside the block too
NonCandidateConsumer ==
    Plain(2, {<<1, 2>>, <<1, Ext>>, <<2, Ext>>}, <<0, NoClass>>)
\* a value that nothing consumes
DeadValue == Plain(1, {}, <<0>>)
\* a value with two consumers outside the block and one inside, which
\* leaves the block too
TwoExits ==
    Plain(2, {<<1, 2>>, <<1, Ext>>, <<1, Ext2>>, <<2, Ext>>, <<2, Ext2>>},
          <<0, 0>>)
\* a value whose consumers are a node flagged ignore in another block and,
\* in the second block, a node of the block
IgnoreOutside ==
    [Plain(1, {<<1, Ext>>}, <<0>>)
        EXCEPT !.ignore = [i \in Ids \cup {Ext, Ext2} |-> i = Ext]]
IgnoreInside ==
    [Plain(3, {<<1, 2>>, <<2, 3>>, <<3, Ext>>}, <<0, 0, 0>>)
        EXCEPT !.ignore = [i \in Ids \cup {Ext, Ext2} |-> i = 2]]
\* c=2 is a tuple node consuming a=1; its Proj 3 has tuple mode again, with
\* the Proj 4
NestedTuple ==
    [Plain(4, {<<1, 2>>, <<2, 3>>, <<3, 4>>, <<4, Ext>>},
           <<0, NoClass, NoClass, 0>>)
        EXCEPT !.mode = [i \in Ids |-> IF i \in {2, 3} THEN "T" ELSE "D"]]

\* a = load; b = add a, a; b is used outside the block
AddSelf ==
    [Plain(2, {<<1, 2>>, <<2, Ext>>}, <<0, 0>>) EXCEPT !.twice = {<<1, 2>>}]

NamedBlocks ==
    {AddSelf, StraightLine, TwoLoads, ThreeLoads, Chain3, Overlap, TwoKillers,
     TwoClasses, CrossClass, TupleConsumer, TwoIndependent,
     NonCandidateConsumer, DeadValue, TwoExits, IgnoreOutside, IgnoreInside,
     NestedTuple}

InputBlocks == SmallBlocks \cup NamedBlocks

\* ------------------------------------------------------------------- state
VARIABLES
    blk,              \* the block being processed (the input graph)
    irg,              \* what the pass changes in the graph: the number of
                      \* synthetic nodes it created, the opcodes it acquired,
                      \* and the dependency edges it added (add_irn_dep)
    history,          \* irg at the end of each completed run
    run,              \* number of calls of rss_schedule_preparation so far
    pc,               \* position in the pass
    cls,              \* loop variable i of process_block: the class index
    nodes,            \* rss->nodes
    available_regs,   \* R of perform_value_serialization_heuristic
    arch_nonign_bs,   \* the registers arch_put_non_ignore_regs gave
    abi_ign_bs,       \* the registers be_abi_put_ignore_regs gave
    handled, live_out, visited,          \* rss_irn_t flags
    consumer_list, descendant_list,      \* rss_irn_t lists
    pkiller_list, kill_value_list, parent_list,   \* as sets: no entry twice
    killer,           \* rss_irn_t.killer
    chain,            \* rss_irn_t.chain: the nr of a chain of chains, or NULL
    dvg_user_list,    \* rss_irn_t.dvg_user_list, a sequence
    dvg_pkiller_list,
    cbc_set,          \* rss->cbc_set
    dvg,              \* the DVG of perform_value_serialization_heuristic
    chains,           \* the chains of the last antichain computation
    sat_vals,         \* the last result of compute_maximal_antichain
    dvg_desc,         \* rss_irn_t.dvg_desc: NULL or the sorted array
    val_arr,          \* val_arr of compute_best_admissible_serialization
    ser_edges,        \* the edges vv -> v it took with add_edge set
    best_ser,         \* the serialization_t it returned
    heights,          \* rss->h: the dependency edges the heights know of
    bsearch,          \* one call of bsearch_for_index: arguments and result
    walk,             \* the walker environment env_t and the links of the
                      \* nodes of the graph that is walked
    funccalls         \* optimize_funccalls: ready_set, busy_set and the
                      \* invocations of the two checks that are under way

recVars == <<handled, live_out, visited, consumer_list, descendant_list,
             pkiller_list, kill_value_list, parent_list, killer, chain,
             dvg_user_list, dvg_pkiller_list>>
serVars == <<dvg_desc, val_arr, ser_edges, best_ser, heights>>
fcVars == <<walk, funccalls>>
auxVars == <<bsearch, fcVars>>
vars == <<blk, irg, history, run, pc, cls, nodes, available_regs,
          arch_nonign_bs, abi_ign_bs, recVars,
          cbc_set, dvg, chains, sat_vals, serVars, auxVars>>

\* --------------------------------------------------------------- IR queries
\* get_nodes_block(irn) == rss->block
InBlock(irn) == irn \in 1 .. blk.n
\* foreach_out_edge(irn, edge): get_edge_src_irn(edge)
OutEdges(irn) == IF irn \in Ids THEN blk.users[irn] ELSE {}
\* arch_irn_is(rss->arch_env, irn, ignore)
arch_irn_is_ignore(irn) == irn \in DOMAIN blk.ignore /\ blk.ignore[irn]
get_irn_mode(irn) == IF irn \in Ids THEN blk.mode[irn] ELSE "D"
arch_get_irn_reg_class(irn) == IF irn \in Ids THEN blk.cls[irn] ELSE NoClass

\* ---------------------------------------------------------------- node info
Min(S) == CHOOSE x \in S : \A y \in S : x <= y
Max(S) == CHOOSE x \in S : \A y \in S : y <= x

\* The nodes of S in the order of their node index.
RECURSIVE SortedSeq(_)
SortedSeq(S) == IF S = {} THEN <<>>
                ELSE <<Min(S)>> \o SortedSeq(S \ {Min(S)})

\* The sources of the out edges of irn in the order foreach_out_edge
\* visits them.
RECURSIVE EdgeSeq(_, _)
EdgeSeq(irn, users) ==
    IF users = <<>>
    THEN <<>>
    ELSE (IF <<irn, Head(users)>> \in blk.twice
          THEN <<Head(users), Head(users)>>
          ELSE <<Head(users)>>) \o EdgeSeq(irn, Tail(users))

out_edges(irn) == EdgeSeq(irn, SortedSeq(OutEdges(irn)))

\* The entries of a list, and plist_has_value.
Range(list) == {list[i] : i \in 1 .. Len(list)}
plist_has_value(list, irn) == irn \in Range(list)

\* collect_descendants: st holds the descendant list built so far and
\* *got_sink; users are the out edges of the node still to visit.
RECURSIVE collect_descendants(_, _)
RECURSIVE collect_descendants_from(_, _)
collect_descendants_from(users, st) ==
    IF users = <<>>
    THEN st
    ELSE LET user == Head(users)
             st1 ==
               IF arch_irn_is_ignore(user)
               THEN st
               ELSE IF InBlock(user) /\ get_irn_mode(user) # "X"
               THEN collect_descendants(user,
                      IF /\ get_irn_mode(user) # "T"
                         /\ ~plist_has_value(st.list, user)
                      THEN [st EXCEPT !.list = Append(@, user)]
                      ELSE st)
               ELSE IF ~st.got_sink
               THEN [list |-> Append(st.list, Sink), got_sink |-> TRUE]
               ELSE st
         IN  collect_descendants_from(Tail(users), st1)

collect_descendants(irn, st) == collect_descendants_from(out_edges(irn), st)

\* collect_single_consumer: st holds the consumer list built so far,
\* got_sink and the live_out flag of the record.
collect_single_consumer_mut(st, consumer) ==
    IF InBlock(consumer)
    THEN IF get_irn_mode(consumer) = "T"
         THEN [st EXCEPT !.list = @ \o SelectSeq(out_edges(consumer),
                              LAMBDA cons_proj : ~arch_irn_is_ignore(cons_proj))]
         ELSE IF ~arch_irn_is_ignore(consumer)
              THEN [st EXCEPT !.list = Append(@, consumer)]
              ELSE st
    ELSE [list |-> Append(st.list, Sink), got_sink |-> TRUE, live_out |-> TRUE]
collect_single_consumer(st, consumer) ==
    IF InBlock(consumer)
    THEN IF get_irn_mode(consumer) = "T"
         THEN [st EXCEPT !.list = @ \o SelectSeq(out_edges(consumer),
                              LAMBDA cons_proj : ~arch_irn_is_ignore(cons_proj))]
         ELSE IF ~arch_irn_is_ignore(consumer)
              THEN [st EXCEPT !.list = Append(@, consumer)]
              ELSE st
    ELSE IF ~st.got_sink
         THEN [list |-> Append(st.list, Sink), got_sink |-> TRUE,
               live_out |-> TRUE]
         ELSE [st EXCEPT !.live_out = TRUE]

RECURSIVE collect_consumer_from(_, _)
collect_consumer_from(consumers, st) ==
    IF consumers = <<>>
    THEN st
    ELSE collect_consumer_from(Tail(consumers),
                               collect_single_consumer(st, Head(consumers)))

collect_consumer(irn) ==
    collect_consumer_from(out_edges(irn),
        [list |-> <<>>, got_sink |-> FALSE, live_out |-> FALSE])

\* The nodes process_block puts on rss->nodes for class c, besides the sink.
Candidates(c) ==
    {irn \in 1 .. blk.n : /\ get_irn_mode(irn) # "T"
                          /\ ~arch_irn_is_ignore(irn)
                          /\ arch_get_irn_reg_class(irn) = c}

\* init_rss_irn: the record of a node the phase has not seen yet.
EmptySets == [r \in Recs |-> {}]
EmptyLists == [r \in Recs |-> <<>>]
AllFalse == [r \in Recs |-> FALSE]
NullArrays == [r \in Recs |-> [null |-> TRUE, arr |-> <<>>]]

\* No call of bsearch_for_index yet.
NoSearch ==
    [key |-> 0, arr |-> <<>>, force |-> 1, reads |-> {}, ret |-> -1,
     status |-> "none"]

\* A link left in a node by an earlier user of the link field.
StaleLink == MaxWalk + 1

\* No node walked yet; optimize_funccalls not called yet.
NoNode ==
    [op |-> "none", ptr |-> "none", ent |-> "none", callees |-> <<>>,
     pred_is_call |-> FALSE, proj |-> "none"]
NoWalk ==
    [status |-> "none", closed_world |-> FALSE, callee_info |-> FALSE,
     n |-> 0, last |-> NoNode,
     n_calls_SymConst |-> 0, n_calls_Sel |-> 0,
     float_const_call_list |-> NULL, nonfloat_const_call_list |-> NULL,
     pure_call_list |-> NULL, proj_list |-> NULL,
     link |-> [i \in 1 .. MaxWalk |-> StaleLink]]
Graphs == 1 .. MaxGraphs
NoFunccalls ==
    [status |-> "none", ops |-> [g \in Graphs |-> <<>>],
     props |-> [g \in Graphs |-> {}], i |-> 1, stack |-> <<>>,
     ready_set |-> {}, busy_set |-> {}]

\* No result of compute_best_admissible_serialization yet.
NoSer ==
    [status |-> "none", src |-> NULL, tgt |-> NULL, omega1 |-> 0,
     omega2 |-> 0]

\* The state before the pass has run, whatever the block.
EntryState ==
    /\ irg = [special |-> 0, opcodes |-> 0, deps |-> {}]
    /\ history = <<>>
    /\ run = 0
    /\ cls = NoClass
    /\ nodes = {}
    /\ available_regs = 0
    /\ arch_nonign_bs = {}
    /\ abi_ign_bs = {}
    /\ handled = AllFalse
    /\ live_out = AllFalse
    /\ visited = AllFalse
    /\ consumer_list = EmptyLists
    /\ descendant_list = EmptyLists
    /\ pkiller_list = EmptySets
    /\ kill_value_list = EmptySets
    /\ parent_list = EmptySets
    /\ killer = [r \in Recs |-> NULL]
    /\ chain = [r \in Recs |-> NULL]
    /\ dvg_user_list = EmptyLists
    /\ dvg_pkiller_list = EmptySets
    /\ cbc_set = {}
    /\ dvg = [nodes |-> {}, edges |-> {}]
    /\ chains = <<>>
    /\ sat_vals = [null |-> TRUE, values |-> {}]
    /\ dvg_desc = NullArrays
    /\ val_arr = <<>>
    /\ ser_edges = {}
    /\ best_ser = NoSer
    /\ heights = {}

Init ==
    /\ blk \in InputBlocks
    /\ EntryState
    /\ pc = "entry"
    /\ bsearch = NoSearch
    /\ walk = NoWalk
    /\ funccalls = NoFunccalls

\* rss_schedule_preparation up to the first class of process_block:
\* init_rss_special_nodes creates a new source and a new sink node in the
\* start block under two new opcodes, and phase_init starts with no record.
rss_schedule_preparation ==
    /\ pc \in {"entry", "done"}
    /\ run < MaxRuns
    /\ run' = run + 1
    /\ irg' = [irg EXCEPT !.special = @ + 2, !.opcodes = @ + iro_rss_last]
    /\ pc' = "class"
    /\ cls' = NumClasses - 1
    /\ nodes' = {}
    /\ handled' = AllFalse
    /\ live_out' = AllFalse
    /\ visited' = AllFalse
    /\ consumer_list' = EmptyLists
    /\ descendant_list' = EmptyLists
    /\ pkiller_list' = EmptySets
    /\ kill_value_list' = EmptySets
    /\ parent_list' = EmptySets
    /\ killer' = [r \in Recs |-> NULL]
    /\ chain' = [r \in Recs |-> NULL]
    /\ dvg_user_list' = EmptyLists
    /\ dvg_pkiller_list' = EmptySets
    /\ cbc_set' = {}
    /\ dvg' = [nodes |-> {}, edges |-> {}]
    /\ chains' = <<>>
    /\ sat_vals' = [null |-> TRUE, values |-> {}]
    /\ UNCHANGED <<auxVars, serVars, blk, history, available_regs, arch_nonign_bs,
                   abi_ign_bs>>

\* process_block, head of the class loop: the candidates of class cls are
\* put on rss->nodes behind the sink, collect_node_info for each of them.
collect_node_info ==
    /\ pc = "class"
    /\ cls >= 0
    /\ LET new == {irn \in Candidates(cls) : ~handled[irn]} IN
        /\ nodes' = {Sink} \cup Candidates(cls)
        /\ consumer_list' = [r \in Recs |->
              IF r \in new THEN collect_consumer(r).list ELSE consumer_list[r]]
        /\ live_out' = [r \in Recs |->
              IF r \in new THEN collect_consumer(r).live_out ELSE live_out[r]]
        /\ descendant_list' = [r \in Recs |->
              IF r \in new
              THEN collect_descendants(r, [list |-> <<>>,
                                           got_sink |-> FALSE]).list
              ELSE descendant_list[r]]
        /\ handled' = [r \in Recs |-> handled[r] \/ r \in new]
    /\ pc' = "pkill"
    /\ UNCHANGED <<auxVars, serVars, blk, irg, history, run, cls, available_regs, arch_nonign_bs,
                   abi_ign_bs, visited,
                   pkiller_list, kill_value_list, parent_list, killer, chain,
                   dvg_user_list, dvg_pkiller_list, cbc_set, dvg, chains,
                   sat_vals>>

\* process_block after the last class: phase_free, the walk and the run end.
process_block_end ==
    /\ pc = "class"
    /\ cls < 0
    /\ pc' = "done"
    /\ history' = Append(history, irg)
    /\ UNCHANGED <<auxVars, serVars, blk, irg, run, cls, nodes, available_regs, arch_nonign_bs,
                   abi_ign_bs, recVars,
                   cbc_set, dvg, chains, sat_vals>>

\* ------------------------------------------------------- potential killers
\* is_potential_killer(v, u): each element of the shorter list is looked up
\* in the sorted array of the other one.  bsearch returns the address of
\* the array slot, which never equals the node searched for, so the test
\* "match && match != irn" holds as soon as the element is found.  A node
\* whose node info was never collected has an empty descendant list.
is_potential_killer(v, u) ==
    LET swap == Len(descendant_list[v]) > Len(consumer_list[u])
        list == IF swap THEN consumer_list[u] ELSE descendant_list[v]
        arr  == IF swap THEN descendant_list[v] ELSE consumer_list[u]
    IN  \A irn \in Range(list) : irn \notin Range(arr)

compute_pkill_set ==
    /\ pc = "pkill"
    /\ pkiller_list' = [u \in Recs |->
          IF u \in nodes
          THEN pkiller_list[u]
                  \cup {v \in Range(consumer_list[u]) :
                              is_potential_killer(v, u)}
          ELSE pkiller_list[u]]
    /\ kill_value_list' = [v \in Recs |->
          kill_value_list[v]
              \cup {u \in nodes : /\ v \in Range(consumer_list[u])
                                  /\ is_potential_killer(v, u)}]
    /\ killer' = [u \in Recs |-> IF u \in nodes THEN Sink ELSE killer[u]]
    /\ pc' = "bipartite"
    /\ UNCHANGED <<auxVars, serVars, blk, irg, history, run, cls, nodes, available_regs, arch_nonign_bs,
                   abi_ign_bs,
                   handled, live_out, visited, consumer_list,
                   descendant_list, parent_list, chain, dvg_user_list,
                   dvg_pkiller_list, cbc_set, dvg, chains, sat_vals>>

\* -------------------------------------------------- bipartite decomposition
\* build_kill_edges: an edge <<value, potential killer>> for each node of
\* rss->nodes and each entry of its pkiller list.
build_kill_edges == {<<irn, pk>> : irn \in nodes, pk \in Recs}
                        \cap {e \in Recs \X Recs : e[2] \in pkiller_list[e[1]]}

\* The while loop of compute_bipartite_decomposition: the parents of all
\* children and the children of all parents, until the sets are stable.
RECURSIVE accumulate(_, _)
accumulate(parents, children) ==
    LET p2 == parents \cup UNION {kill_value_list[t] : t \in children}
        c2 == children \cup UNION {pkiller_list[s] : s \in p2}
    IN  IF p2 = parents /\ c2 = children
        THEN [parents |-> parents, children |-> children]
        ELSE accumulate(p2, c2)

\* "assure bipartite property": a parent found among the children is
\* removed from the children.
\* (assure_bipartite_mut: the decomposition without the removal.)
assure_bipartite_mut(parents, children) == children
assure_bipartite(parents, children) == children \ parents

\* The loop over rss->nodes (the sink first, then by node order): every node
\* not yet visited seeds a component; todo are the nodes still to look at.
RECURSIVE decompose(_, _, _, _)
decompose(todo, vis, epk, cur_num) ==
    IF todo = {}
    THEN [cbcs |-> {}, visited |-> vis]
    ELSE LET u == Min(todo) IN
         IF vis[u] \/ u = Sink
         THEN decompose(todo \ {u}, vis, epk, cur_num)
         ELSE LET acc  == accumulate({u}, pkiller_list[u])
                  par  == acc.parents
                  chi  == assure_bipartite(par, acc.children)
                  kill == {e \in epk : e[1] \in par /\ e[2] \in chi}
                  rest == decompose(todo \ {u},
                                    [r \in Recs |-> vis[r] \/ r \in par],
                                    epk \ kill, cur_num + 1)
              IN  [cbcs    |-> {[parents |-> par, children |-> chi,
                                 kill_edges |-> kill, nr |-> cur_num]}
                                   \cup rest.cbcs,
                   visited |-> rest.visited]

compute_bipartite_decomposition ==
    /\ pc = "bipartite"
    /\ LET d == decompose(nodes, visited, build_kill_edges, 0) IN
        /\ cbc_set' = d.cbcs
        /\ visited' = d.visited
    /\ pc' = "killing"
    /\ UNCHANGED <<auxVars, serVars, blk, irg, history, run, cls, nodes, available_regs, arch_nonign_bs,
                   abi_ign_bs,
                   handled, live_out, consumer_list, descendant_list,
                   pkiller_list, kill_value_list, parent_list, killer, chain,
                   dvg_user_list, dvg_pkiller_list, dvg, chains, sat_vals>>

\* --------------------------------------------------------- killing function
\* cost of a child in select_child_max_cost as the fraction <<num, den>>:
\* the number of its kill edges from x over the number of its descendants
\* plus |y| (the division is skipped when that number is 0).
child_cost(child, x, y, cbc) ==
    LET num_unkilled_parents ==
            Cardinality({k \in cbc.kill_edges : k[2] = child /\ k[1] \in x})
        num_descendants ==
            Len(descendant_list[child]) + Cardinality(y)
    IN  <<num_unkilled_parents,
          IF num_descendants > 0 THEN num_descendants ELSE 1>>

cost_gt(a, b) == a[1] * b[2] > b[1] * a[2]

\* The children select_child_max_cost can return: the first child of maximum
\* cost in the iteration order of the hashed node set, which is any child of
\* maximum cost; t->irn stays NULL when the component has no child.
select_child_max_cost(x, y, cbc) ==
    IF cbc.children = {}
    THEN {NULL}
    ELSE {t \in cbc.children :
            \A o \in cbc.children :
                ~cost_gt(child_cost(o, x, y, cbc), child_cost(t, x, y, cbc))}

\* remove_covered_parents: the parents of x with a kill edge to t_irn.
\* (remove_covered_parents_mut: the test k_edge->tgt == t_irn left out.)
remove_covered_parents_mut(x, t_irn, cbc) ==
    {k[1] : k \in {e \in cbc.kill_edges : e[1] \in x}}
remove_covered_parents(x, t_irn, cbc) ==
    {k[1] : k \in {e \in cbc.kill_edges : e[2] = t_irn /\ e[1] \in x}}

\* The loop "while X not empty" of compute_killing_function for one
\* component; pl is the parent_list of all records, sks the children
\* selected so far.  With no child the loop hands NULL to get_rss_irn
\* (remove_covered_parents), a crash.  When the selected child covers no
\* parent of x, no child has a kill edge from x (its cost, the maximum,
\* is 0): x stays as it is and the loop never ends.
RECURSIVE greedy(_, _, _, _, _)
greedy(cbc, x, y, pl, sks) ==
    IF x = {}
    THEN {[status |-> "ok", parent_list |-> pl, sks |-> sks]}
    ELSE UNION {
           IF t = NULL
           THEN {[status |-> "crashed", parent_list |-> pl, sks |-> sks]}
           ELSE LET covered == remove_covered_parents(x, t, cbc) IN
                IF covered = {}
                THEN {[status |-> "hang", parent_list |-> pl, sks |-> sks]}
                ELSE greedy(cbc, x \ covered, y \cup Range(descendant_list[t]),
                            [pl EXCEPT ![t] = @ \cup covered], sks \cup {t})
           : t \in select_child_max_cost(x, y, cbc)}

\* "build killing function": for each selected child t and each entry of its
\* parent list, the killer is set to t if it still is the sink.  (The order
\* of the selected children does not matter to the result: qsort compares
\* them with cmp_child_costs, which is given the addresses of the array
\* slots, so the order is arbitrary; a parent is in the list of one child.)
build_killing_function(k, sks, pl) ==
    [p \in Recs |->
        LET ts == {t \in sks \ {Sink} : p \in pl[t]} IN
        IF k[p] = Sink /\ ts # {} THEN CHOOSE t \in ts : TRUE ELSE k[p]]

\* The components in the order of their nr (the hash of rss->cbc_set).
RECURSIVE killing(_, _, _)
killing(nr, pl, k) ==
    IF nr >= Cardinality(cbc_set)
    THEN {[status |-> "ok", parent_list |-> pl, killer |-> k]}
    ELSE LET cbc == CHOOSE c \in cbc_set : c.nr = nr IN
         UNION {
           IF g.status # "ok"
           THEN {[status |-> g.status, parent_list |-> g.parent_list,
                  killer |-> k]}
           ELSE killing(nr + 1, g.parent_list,
                        build_killing_function(k, g.sks, g.parent_list))
           : g \in greedy(cbc, cbc.parents, {}, pl, {})}

compute_killing_function ==
    /\ pc = "killing"
    /\ \E o \in killing(0, parent_list, killer) :
        /\ parent_list' = o.parent_list
        /\ killer' = o.killer
        /\ pc' = IF o.status = "ok" THEN "heuristic" ELSE o.status
        /\ cbc_set' = IF o.status = "ok" THEN {} ELSE cbc_set
    /\ UNCHANGED <<auxVars, serVars, blk, irg, history, run, cls, nodes, available_regs, arch_nonign_bs,
                   abi_ign_bs,
                   handled, live_out, visited, consumer_list,
                   descendant_list, pkiller_list, kill_value_list, chain,
                   dvg_user_list, dvg_pkiller_list, dvg, chains, sat_vals>>

\* ------------------------------------------------------------------- DVG
\* The while loop of compute_dvg for the node u_irn: an edge from u_irn to
\* every killer on its killer chain, until the killer repeats (the sink kills
\* itself).  A killer that has no record yet has the killer NULL, and the
\* next round hands NULL to get_rss_irn.
RECURSIVE dvg_killer_chain(_, _, _, _)
dvg_killer_chain(u_irn, cur_killer, old_killer, d) ==
    IF cur_killer = old_killer \/ d.status # "ok"
    THEN d
    ELSE IF cur_killer = NULL \/ <<cur_killer, u_irn>> \in d.edges
         THEN [d EXCEPT !.status = "crashed"]
         ELSE dvg_killer_chain(u_irn, killer[cur_killer], cur_killer,
                  [status |-> "ok",
                   nodes  |-> d.nodes \cup {cur_killer},
                   edges  |-> d.edges \cup {<<u_irn, cur_killer>>}])

\* foreach_plist(rss->nodes, el): the sink is the first entry of the list.
RECURSIVE dvg_of(_, _)
dvg_of(todo, d) ==
    IF todo = {} \/ d.status # "ok"
    THEN d
    ELSE LET u_irn == IF Sink \in todo THEN Sink ELSE Min(todo) IN
         dvg_of(todo \ {u_irn},
                dvg_killer_chain(u_irn, killer[u_irn], NULL,
                                 [d EXCEPT !.nodes = @ \cup {u_irn}]))

\* bitset_andnot(tgt, src) and bitset_popcnt on register bitsets.
bitset_andnot(tgt, src) == tgt \ src
bitset_popcnt(bs) == Cardinality(bs)

\* available_regs of perform_value_serialization_heuristic.
\* (register_budget_mut: the two counts subtracted.)
register_budget_mut(nonign, abi) == bitset_popcnt(nonign) - bitset_popcnt(abi)
register_budget(nonign, abi) == bitset_popcnt(bitset_andnot(nonign, abi))

\* perform_value_serialization_heuristic up to compute_dvg; the two
\* register bitsets of the class are inputs of the architecture and the ABI.
compute_dvg ==
    /\ pc = "heuristic"
    /\ \E nonign \in SUBSET Regs : \E abi \in SUBSET Regs :
          /\ arch_nonign_bs' = nonign
          /\ abi_ign_bs' = abi
          /\ available_regs' = register_budget(nonign, abi)
    /\ LET d == dvg_of(nodes, [status |-> "ok", nodes |-> {}, edges |-> {}])
       IN  /\ dvg' = [nodes |-> d.nodes, edges |-> d.edges]
           /\ pc' = IF d.status = "ok" THEN "antichain" ELSE "crashed"
    /\ UNCHANGED <<auxVars, serVars, blk, irg, history, run, cls, nodes, recVars, cbc_set,
                   chains, sat_vals>>

\* ------------------------------------------------------- maximal antichain
\* BSEARCH_IRN_ARR(val, arr) on a sorted array: val is found iff it is in it.
BSEARCH_IRN_ARR(val, arr) == val \in Range(arr)

\* The two loops of build_dvg_pkiller_list over the dvg_user_list of one
\* node: the user u_irn is appended when the list has another entry v_irn
\* whose dvg_desc does not hold u_irn (and u_irn is not yet in the list).
dvg_pkillers(users, desc, pkillers) ==
    pkillers \cup
        {users[i] : i \in {el \in 1 .. Len(users) :
            \E el2 \in 1 .. Len(users) :
                /\ el # el2
                /\ ~BSEARCH_IRN_ARR(users[el], desc[users[el2]].arr)}}

\* build_dvg_pkiller_list: a user of a node becomes a DVG pkiller when the
\* node has another user.  The test reads the dvg_desc array of that other
\* user, which is NULL since init_rss_irn unless it was assigned.
build_dvg_pkiller_list_crashes(d) ==
    \E irn \in d.nodes :
        /\ Len(dvg_user_list[irn]) >= 2
        /\ \E el2 \in Range(dvg_user_list[irn]) : dvg_desc[el2].null

\* The dvg_pkiller_list of every record after build_dvg_pkiller_list.
dvg_pkiller_lists(d) ==
    [r \in Recs |->
        IF r \in d.nodes
        THEN dvg_pkillers(dvg_user_list[r], dvg_desc, dvg_pkiller_list[r])
        ELSE dvg_pkiller_list[r]]

\* hungarian_solve on the 0/1 matrix of the DVG edges, maximize-utility
\* mode: the maximum-cardinality matchings.
Matchings(E) ==
    {M \in SUBSET E :
        \A e \in M : \A f \in M : e # f => e[1] # f[1] /\ e[2] # f[2]}

hungarian_solve(E) ==
    {M \in Matchings(E) :
        \A O \in Matchings(E) : Cardinality(O) <= Cardinality(M)}

\* "follow chain, having j as source"
RECURSIVE follow_chain(_, _)
follow_chain(assignment, source) ==
    IF \E e \in assignment : e[1] = source
    THEN <<source>> \o follow_chain(assignment,
                          (CHOOSE e \in assignment : e[1] = source)[2])
    ELSE <<source>>

\* "Construction of the minimal chain partition": a chain for every node
\* that is no target of the assignment, in the order of the index map.
chain_partition(d, assignment) ==
    LET heads == SortedSeq({j \in d.nodes :
                               ~\E e \in assignment : e[2] = j})
    IN  [c \in 1 .. Len(heads) |->
            [nr |-> c - 1, elements |-> follow_chain(assignment, heads[c])]]

Elements(c) == {c.elements[i] : i \in 1 .. Len(c.elements)}

\* rss_irn_t.chain after the construction: the chain the node was put on,
\* otherwise what the field held before.
chain_pointers(cs, old) ==
    [r \in Recs |->
        IF \E c \in 1 .. Len(cs) : r \in Elements(cs[c])
        THEN cs[CHOOSE c \in 1 .. Len(cs) : r \in Elements(cs[c])]
        ELSE old[r]]

\* plist_element_get_prev of u in its chain, NULL for the first element.
chain_prev(c, u) ==
    LET i == CHOOSE k \in 1 .. Len(c.elements) : c.elements[k] = u
    IN  IF i > 1 THEN c.elements[i - 1] ELSE NULL

\* The do-while loop of compute_maximal_antichain.  The test whether
\* val_arr[j] is a DVG descendant of u is commented out in the source: a
\* value is moved to temp as soon as the array holds another value.
RECURSIVE antichain_loop(_, _)
antichain_loop(values, ch) ==
    LET temp == IF Cardinality(values) >= 2 THEN values ELSE {}
        prev == {chain_prev(ch[u], u) : u \in temp} \ {NULL}
        next == (values \ temp) \cup prev
    IN  IF temp = {} THEN next ELSE antichain_loop(next, ch)

compute_maximal_antichain ==
    /\ pc = "antichain"
    /\ IF dvg.edges = {}
       THEN /\ sat_vals' = [null |-> TRUE, values |-> {}]
            /\ pc' = "loop"
            /\ UNCHANGED <<chains, chain, dvg_pkiller_list>>
       ELSE IF build_dvg_pkiller_list_crashes(dvg)
       THEN /\ pc' = "crashed"
            /\ UNCHANGED <<chains, chain, sat_vals, dvg_pkiller_list>>
       ELSE \E assignment \in hungarian_solve(dvg.edges) :
              LET cs == chain_partition(dvg, assignment)
                  ch == chain_pointers(cs, chain)
              IN  /\ chains' = cs
                  /\ chain' = ch
                  /\ dvg_pkiller_list' = dvg_pkiller_lists(dvg)
                  /\ sat_vals' =
                        [null   |-> FALSE,
                         values |-> antichain_loop(
                                      {cs[c].elements[1] : c \in 1 .. Len(cs)},
                                      ch)]
                  /\ pc' = "loop"
    /\ UNCHANGED <<auxVars, serVars, blk, irg, history, run, cls, nodes, available_regs, arch_nonign_bs,
                   abi_ign_bs,
                   handled, live_out, visited, consumer_list,
                   descendant_list, pkiller_list, kill_value_list,
                   parent_list, killer, dvg_user_list, cbc_set, dvg>>

\* ------------------------------------------------------ serialization loop
\* The loop test of perform_value_serialization_heuristic.
\* (loop_test_mut: the comparison off by one.)
loop_test_mut(sv, regs) == ~sv.null /\ Cardinality(sv.values) > regs + 1
loop_test(sv, regs) == ~sv.null /\ Cardinality(sv.values) > regs

\* compute_best_admissible_serialization.  With one saturating value there
\* is no pair (u, v): has_positive_omega1 stays 0 and the result is NULL.
\* With more, the descendants of v are read from v->dvg_desc, which is NULL.
compute_best_admissible_serialization(sv) ==
    IF Cardinality(sv.values) >= 2 THEN "crashed" ELSE "NULL"

\* One round of the loop: the caller reads ser->edge->tgt of the result
\* without a test for NULL.
serialize ==
    /\ pc = "loop"
    /\ loop_test(sat_vals, available_regs)
    /\ LET ser == compute_best_admissible_serialization(sat_vals)
       IN  pc' = IF ser = "NULL" THEN "crashed" ELSE ser
    /\ UNCHANGED <<auxVars, serVars, blk, irg, history, run, cls, nodes, available_regs, arch_nonign_bs,
                   abi_ign_bs,
                   recVars, cbc_set, dvg, chains, sat_vals>>

\* The loop ends: the heuristic is finished for this class, process_block
\* goes on with the next class.
heuristic_finished ==
    /\ pc = "loop"
    /\ ~loop_test(sat_vals, available_regs)
    /\ pc' = "class"
    /\ cls' = cls - 1
    /\ UNCHANGED <<auxVars, serVars, blk, irg, history, run, nodes, available_regs, arch_nonign_bs,
                   abi_ign_bs, recVars,
                   cbc_set, dvg, chains, sat_vals>>

Next ==
    \/ rss_schedule_preparation
    \/ collect_node_info
    \/ compute_pkill_set
    \/ compute_bipartite_decomposition
    \/ compute_killing_function
    \/ compute_dvg
    \/ compute_maximal_antichain
    \/ serialize
    \/ heuristic_finished
    \/ process_block_end

Spec == Init /\ [][Next]_vars

\* =================================================================== claims
\* Positions of the pass the claims speak about.
AfterPkillSet == pc = "bipartite"
AfterDecomposition == pc = "killing"
AfterKillingFunction == pc = "heuristic"
AfterDvg == pc = "antichain"
AfterAntichain == pc = "loop" /\ ~sat_vals.null
HeuristicFinished == pc = "class" /\ cls < NumClasses - 1

C3_SecondRunSameGraph ==
    Len(history) >= 2 => history[2] = history[1]

\* Paths of the DVG: the nodes reachable from n over at least one edge.
RECURSIVE Closure(_, _)
Closure(E, S) ==
    LET T == S \cup {e[2] : e \in {f \in E : f[1] \in S}}
    IN  IF T = S THEN S ELSE Closure(E, T)

Reachable(E, n) == Closure(E, {e[2] : e \in {f \in E : f[1] = n}})

\* C4: after compute_dvg the DVG has no cycle and no self-loop, on no node,
\* the sink included.
C4_DvgStrictDag ==
    AfterDvg => \A n \in dvg.nodes : n \notin Reachable(dvg.edges, n)

\* C5: after compute_maximal_antichain every DVG node, the sink included,
\* is on exactly one chain, and its chain pointer is that chain.
C5_ChainsPartition ==
    AfterAntichain =>
        \A n \in dvg.nodes :
            /\ Cardinality({c \in 1 .. Len(chains) :
                               n \in Elements(chains[c])}) = 1
            /\ \E c \in 1 .. Len(chains) :
                   n \in Elements(chains[c]) /\ chain[n] = chains[c]

\* C6: the set compute_maximal_antichain returns is a maximum antichain of
\* the DVG: no member reaches another one, and it has as many members as
\* there are chains.
C6_MaximumAntichain ==
    AfterAntichain =>
        /\ \A a \in sat_vals.values : \A b \in sat_vals.values :
               a # b => b \notin Reachable(dvg.edges, a)
        /\ Cardinality(sat_vals.values) = Len(chains)

\* C7: after compute_killing_function the killer of every candidate of the
\* current class is the sink or one of its potential killers.
C7_KillerIsPkiller ==
    AfterKillingFunction =>
        \A u \in nodes \ {Sink} :
            killer[u] = Sink \/ killer[u] \in pkiller_list[u]

\* A candidate got a killer other than the sink.
C7_Witness ==
    /\ AfterKillingFunction
    /\ \E u \in nodes \ {Sink} :
           killer[u] # Sink /\ killer[u] \in pkiller_list[u]

\* C8: the parents and the children of every component are disjoint, and
\* every kill edge of it leads from a parent to a child.
C8_Bipartite ==
    AfterDecomposition =>
        \A c \in cbc_set :
            /\ c.parents \cap c.children = {}
            /\ \A e \in c.kill_edges :
                   e[1] \in c.parents /\ e[2] \in c.children

\* A component with kill edges, one of whose parents is a potential killer
\* of a parent of the component (it was among the children).
C8_Witness ==
    /\ AfterDecomposition
    /\ \E c \in cbc_set :
           /\ c.kill_edges # {}
           /\ \E p \in c.parents : \E s \in c.parents : p \in pkiller_list[s]

\* C9: every parent of every component is the source of a kill edge of the
\* component.
C9_ParentHasKillEdge ==
    AfterDecomposition =>
        \A c \in cbc_set :
            \A p \in c.parents : \E e \in c.kill_edges : e[1] = p

\* The nodes reachable from v inside the block, plus the sink if a path
\* from v leaves the block.
RECURSIVE ReachInBlock(_)
ReachInBlock(v) ==
    UNION {{w} \cup ReachInBlock(w) : w \in {x \in OutEdges(v) : InBlock(x)}}

Descendants(v) ==
    ReachInBlock(v)
        \cup (IF \E w \in {v} \cup ReachInBlock(v) :
                    \E x \in OutEdges(w) : ~InBlock(x)
              THEN {Sink} ELSE {})

\* C10: after compute_pkill_set a consumer v of a candidate u is a
\* potential killer of u exactly when no descendant of v other than v
\* consumes u, whether or not v is a candidate of the current class.
C10_PkillersExact ==
    AfterPkillSet =>
        \A u \in nodes \ {Sink} : \A v \in Range(consumer_list[u]) :
            v \in pkiller_list[u]
                <=> (Descendants(v) \cap Range(consumer_list[u])) \subseteq {v}

\* The number of entries of list that are irn.
Count(list, irn) == Cardinality({i \in 1 .. Len(list) : list[i] = irn})

\* The candidates whose node info has been collected.
Handled == {n \in Ids : handled[n]}

\* The consumers of n that live outside the block.
OutsideConsumers(n) == {c \in OutEdges(n) : ~InBlock(c)}

\* C12: after collect_node_info for n, a consumer outside the block sets
\* live_out(n) and puts the sink exactly once on the consumer list; the
\* sink is at most once on the consumer list and on the descendant list.
C12_SinkOnce ==
    \A n \in Handled :
        /\ OutsideConsumers(n) # {} =>
               live_out[n] /\ Count(consumer_list[n], Sink) = 1
        /\ Count(consumer_list[n], Sink) <= 1
        /\ Count(descendant_list[n], Sink) <= 1

\* A value with two consumers outside the block, and a second path that
\* leaves the block, has been handled.
C12_Witness ==
    \E n \in Handled :
        /\ Cardinality(OutsideConsumers(n)) >= 2
        /\ \E c \in OutEdges(n) : InBlock(c) /\ OutsideConsumers(c) # {}
        /\ Count(consumer_list[n], Sink) = 1
        /\ Count(descendant_list[n], Sink) = 1

\* C13: a node flagged ignore is on no consumer list, descendant list or
\* pkiller list, and it sets neither live_out nor adds the sink: live_out
\* and the sink on the consumer list need a consumer outside the block that
\* is not flagged ignore.
C13_IgnoreSkipped ==
    \A n \in Handled :
        /\ \A v \in Range(consumer_list[n]) \cup Range(descendant_list[n])
                      \cup pkiller_list[n] : ~arch_irn_is_ignore(v)
        /\ (live_out[n] \/ plist_has_value(consumer_list[n], Sink)) =>
               \E c \in OutsideConsumers(n) : ~arch_irn_is_ignore(c)

\* C14: no node of tuple mode is a candidate, and none is on the consumer
\* list or the descendant list of a candidate.
C14_NoTuple ==
    /\ \A n \in nodes : get_irn_mode(n) # "T"
    /\ \A n \in Handled :
           \A v \in Range(consumer_list[n]) \cup Range(descendant_list[n]) :
               get_irn_mode(v) # "T"

\* C16 as stated: R is the number of non-ignore registers minus the number
\* of ABI-reserved registers, for every pair of register sets.
C16_BudgetIsSubtraction ==
    available_regs = Cardinality(arch_nonign_bs) - Cardinality(abi_ign_bs)

\* C16: R is the number of non-ignore registers minus the number of those
\* among them that are ABI-reserved; it is the difference of the two counts
\* when every ABI-reserved register is a non-ignore register.
C16_BudgetIsDifference ==
    /\ available_regs =
           Cardinality(arch_nonign_bs)
               - Cardinality(arch_nonign_bs \cap abi_ign_bs)
    /\ abi_ign_bs \subseteq arch_nonign_bs =>
           available_regs =
               Cardinality(arch_nonign_bs) - Cardinality(abi_ign_bs)

\* The budget was computed from an ABI-reserved set that is no subset of the
\* non-ignore set.
C16_Witness ==
    /\ pc = "antichain"
    /\ ~(abi_ign_bs \subseteq arch_nonign_bs)
    /\ available_regs = 1

\* C11: k independent values of class 0 feed one consumer (the blocks
\* TwoLoads and ThreeLoads, k = n - 1) and R = k - 1: the antichain computed
\* first has k members, and when the heuristic has finished for the class
\* exactly one dependency edge between two of the values has been inserted
\* and the antichain computed last has R members.
C11_OneSerialization ==
    (blk \in {TwoLoads, ThreeLoads} /\ available_regs = blk.n - 2) =>
        /\ (pc = "loop" /\ cls = 0 /\ irg.deps = {}) =>
               Cardinality(sat_vals.values) = blk.n - 1
        /\ (pc \in {"class", "done"} /\ cls < 0) =>
               /\ Cardinality(irg.deps) = 1
               /\ irg.deps \subseteq (1 .. blk.n - 1) \X (1 .. blk.n - 1)
               /\ Cardinality(sat_vals.values) = available_regs

\* C15: a round of the serialization loop that finds no edge with a
\* positive omega1 ends the loop normally: the pass goes on with the next
\* class, and the dependency edges, the DVG and the DVG user lists are as
\* before.
C15_NoEdgeEndsLoop ==
    [][(/\ pc = "loop"
        /\ loop_test(sat_vals, available_regs)
        /\ compute_best_admissible_serialization(sat_vals) = "NULL")
         => (/\ pc' = "class"
             /\ irg' = irg
             /\ dvg' = dvg
             /\ dvg_user_list' = dvg_user_list)]_vars

\* C17: for every component the greedy loop of compute_killing_function
\* ends, with X empty and every parent of the component on the parent list
\* of exactly one selected child.
C17_GreedyTerminates ==
    AfterDecomposition =>
        \A c \in cbc_set :
            \A g \in greedy(c, c.parents, {}, EmptySets, {}) :
                /\ g.status = "ok"
                /\ \A p \in c.parents :
                       Cardinality({t \in g.sks : p \in g.parent_list[t]}) = 1

\* The walk n, killer(n), killer(killer(n)), ... reaches the sink within
\* fuel steps over nodes with a killer.
RECURSIVE KillerWalk(_, _)
KillerWalk(n, fuel) ==
    IF n = Sink THEN TRUE
    ELSE IF n = NULL \/ fuel = 0 THEN FALSE
    ELSE KillerWalk(killer[n], fuel - 1)

\* C18: when the DVG is about to be built the sink is its own killer, and
\* the killer walk of every candidate reaches the sink over nodes whose
\* killer is initialized.
C18_KillerWalkReachesSink ==
    AfterKillingFunction =>
        /\ killer[Sink] = Sink
        /\ \A u \in nodes : KillerWalk(u, MaxNodes + 1)

\* ------------------------------------------ the functions on DVG records
\* heights_reachable_in_block(h, n, m): there is a path from n to m in the
\* block.
heights_reachable_in_block(n, m) == m \in ReachInBlock(n)

\* The decision add_edge of compute_best_admissible_serialization for
\* u = val_arr[i], v = val_arr[j] and vv = u->dvg_pkiller[k]; pk is the
\* sorted array u->dvg_pkiller.  (The indices count from 1 here, in both
\* arrays.)
add_edge(arr, pk, j, k) ==
    LET is_pkiller == BSEARCH_IRN_ARR(arr[j], pk)
    IN  IF is_pkiller
        THEN k # j
        ELSE ~heights_reachable_in_block(arr[j], pk[k])

\* The orders foreach_nodeset can give the members of a set in.
Orders(S) ==
    {f \in [1 .. Cardinality(S) -> S] :
        \A i \in DOMAIN f : \A j \in DOMAIN f : i # j => f[i] # f[j]}

\* get_irn_height(h, irn): the length of the longest path from irn to a
\* node of the block without user, over the out edges of the block and the
\* dependency edges the heights know of (the source of a dependency edge
\* depends on its target).  A path has at most fuel edges.
RECURSIVE irn_height(_, _)
irn_height(irn, fuel) ==
    LET us == {x \in OutEdges(irn) : InBlock(x)}
                 \cup {e[1] : e \in {d \in heights : d[2] = irn}}
    IN  IF us = {} \/ fuel = 0
        THEN 0
        ELSE 1 + Max({irn_height(x, fuel - 1) : x \in us})

get_irn_height(irn) == irn_height(irn, MaxNodes)

\* rss->max_height, the result of heights_recompute_block.
max_height == Max({get_irn_height(irn) : irn \in 1 .. blk.n} \cup {0})

\* a < b on two unsigned values of 32 bits, each written as the signed
\* number with the same bits (UINT_MAX is -1).
ULess(a, b) == IF (a >= 0) = (b >= 0) THEN a < b ELSE a >= 0
UINT_MAX == -1

RECURSIVE Flatten(_)
Flatten(ss) == IF ss = <<>> THEN <<>> ELSE Head(ss) \o Flatten(Tail(ss))

\* The values of mu1, mu2, omega1 and omega2 for u, v and vv = pk[k] with
\* add_edge set: bs_sv are the saturating values, bs_vdesc the DVG
\* descendants of v and bs_ukilldesc the DVG pkillers of u with their DVG
\* descendants, each without the sink.
ser_candidate(arr, pkl, i, j, k) ==
    LET u  == arr[i]
        v  == arr[j]
        pk == SortedSeq(pkl[u])
        vv == pk[k]
        is_pkiller == BSEARCH_IRN_ARR(v, pk)
        bs_sv == Range(arr)
        bs_vdesc == Range(dvg_desc[v].arr) \ {Sink}
        bs_ukilldesc ==
            UNION {{irn} \cup (Range(dvg_desc[irn].arr) \ {Sink})
                   : irn \in pkl[u] \ {Sink}}
        mu1 == bitset_popcnt(bs_vdesc \cap bs_sv)
        mu2 == IF is_pkiller
               THEN bitset_popcnt(bitset_andnot(bs_ukilldesc, bs_vdesc))
               ELSE 0
        critical_path_cost ==
            get_irn_height(v) + max_height - get_irn_height(vv) + 1
    IN  [u |-> u, vv |-> vv, v |-> v, mu1 |-> mu1, mu2 |-> mu2,
         omega1 |-> mu1 - mu2,
         omega2 |-> IF critical_path_cost > max_height
                    THEN critical_path_cost - max_height ELSE 0]

\* The candidates in the order of the three loops: i and j upwards, k
\* downwards.
ser_candidates(arr, pkl) ==
    LET n == Len(arr)
        ofk(i, j) ==
            LET len == Len(SortedSeq(pkl[arr[i]]))
                ks  == [x \in 1 .. len |-> len + 1 - x]
                sel == SelectSeq(ks, LAMBDA k :
                          /\ SortedSeq(pkl[arr[i]])[k] # Sink
                          /\ add_edge(arr, SortedSeq(pkl[arr[i]]), j, k))
            IN  [x \in 1 .. Len(sel) |-> ser_candidate(arr, pkl, i, j, sel[x])]
        ofj(i) == Flatten([j \in 1 .. n |->
                              IF i = j THEN <<>> ELSE ofk(i, j)])
    IN  Flatten([i \in 1 .. n |-> ofj(i)])

\* The body of "if (add_edge)" for the candidates one after the other.
\* st holds the locals of the function; ndebug says that assertions are
\* compiled out.
RECURSIVE ser_fold(_, _, _, _)
ser_fold(cands, st, num_regs, ndebug) ==
    IF cands = <<>> \/ st.status # "ok"
    THEN st
    ELSE LET c == Head(cands)
             benefit == num_regs - c.omega1
             s0 == [st EXCEPT !.evaluated = Append(@, c)]
             s1 == [s0 EXCEPT !.has_positive_omega1 = @ \/ c.omega1 # 0]
             s2 == IF ULess(benefit, s1.best_benefit)
                   THEN [s1 EXCEPT !.min_benefit_edge = <<c.vv, c.v>>,
                                   !.best_benefit = benefit]
                   ELSE s1
             s3 == IF c.omega2 = 0 /\ ULess(benefit, s2.best_benefit_omega20)
                   THEN [s2 EXCEPT !.min_omega20_edge = <<c.vv, c.v>>,
                                   !.best_benefit_omega20 = benefit]
                   ELSE s2
             s4 == [s3 EXCEPT !.best_omega2 =
                                 IF ULess(@, c.omega2) THEN @ ELSE c.omega2]
         IN  IF c.mu1 < c.mu2 /\ ~ndebug
             THEN [s0 EXCEPT !.status = "assert"]
             ELSE ser_fold(Tail(cands), s4, num_regs, ndebug)

\* An edge that was never assigned: min_benefit_edge and min_omega20_edge
\* are locals without initializer.
Unassigned == <<NULL, NULL>>

\* compute_best_admissible_serialization(rss, sat_vals, ser, num_regs): the
\* locals after the loops and the result.
ser_locals(arr, pkl, num_regs, ndebug) ==
    ser_fold(ser_candidates(arr, pkl),
             [status |-> "ok", evaluated |-> <<>>,
              best_benefit |-> UINT_MAX, best_omega2 |-> UINT_MAX,
              best_benefit_omega20 |-> UINT_MAX,
              has_positive_omega1 |-> FALSE,
              min_benefit_edge |-> Unassigned,
              min_omega20_edge |-> Unassigned],
             num_regs, ndebug)

ser_result(st) ==
    IF st.status # "ok"
    THEN [NoSer EXCEPT !.status = st.status]
    ELSE IF ~st.has_positive_omega1
    THEN [NoSer EXCEPT !.status = "NULL"]
    ELSE IF st.best_omega2 = 0
    THEN [status |-> "ser", src |-> st.min_omega20_edge[1],
          tgt |-> st.min_omega20_edge[2],
          omega1 |-> st.best_benefit_omega20, omega2 |-> st.best_omega2]
    ELSE [status |-> "ser", src |-> st.min_benefit_edge[1],
          tgt |-> st.min_benefit_edge[2],
          omega1 |-> st.best_benefit, omega2 |-> st.best_omega2]

\* The records the two functions are run on: a DVG over the values
\* 1 .. MaxVals of the block, the dvg_user_list of a value holding its
\* successors and dvg_desc its descendants in the DVG, and a set of
\* saturating values with two members or more.
Vals == 1 .. MaxVals
DvgEdges == SUBSET {e \in Vals \X Vals : e[1] < e[2]}

SerInit ==
    /\ blk \in {ThreeLoads, Chain3}
    /\ irg = [special |-> iro_rss_last, opcodes |-> iro_rss_last, deps |-> {}]
    /\ history = <<>>
    /\ run = 1
    /\ pc = "dvg_pkiller"
    /\ cls = 0
    /\ nodes = Vals \cup {Sink}
    /\ available_regs \in 0 .. MaxRegs
    /\ arch_nonign_bs = 1 .. available_regs
    /\ abi_ign_bs = {}
    /\ handled = [r \in Recs |-> r \in Vals]
    /\ live_out = AllFalse
    /\ visited = AllFalse
    /\ consumer_list = EmptyLists
    /\ descendant_list = EmptyLists
    /\ pkiller_list = EmptySets
    /\ kill_value_list = EmptySets
    /\ parent_list = EmptySets
    /\ killer = [r \in Recs |-> Sink]
    /\ chain = [r \in Recs |-> NULL]
    /\ \E E \in DvgEdges :
          /\ dvg = [nodes |-> Vals, edges |-> E]
          /\ dvg_user_list =
                [r \in Recs |-> SortedSeq({v \in Vals : <<r, v>> \in E})]
          /\ dvg_desc =
                [r \in Recs |->
                    [null |-> FALSE, arr |-> SortedSeq(Reachable(E, r))]]
    /\ dvg_pkiller_list = EmptySets
    /\ cbc_set = {}
    /\ chains = <<>>
    /\ \E S \in SUBSET Vals :
          /\ Cardinality(S) >= 2
          /\ sat_vals = [null |-> FALSE, values |-> S]
    /\ val_arr = <<>>
    /\ ser_edges = {}
    /\ best_ser = NoSer
    /\ heights = {}
    /\ bsearch = NoSearch
    /\ walk = NoWalk
    /\ funccalls = NoFunccalls

\* build_dvg_pkiller_list, with node->dvg_pkiller the sorted array of the
\* list.  Reading the dvg_desc of a user that has none is a crash.
build_dvg_pkiller_list ==
    /\ pc = "dvg_pkiller"
    /\ IF build_dvg_pkiller_list_crashes(dvg)
       THEN /\ pc' = "crashed"
            /\ UNCHANGED dvg_pkiller_list
       ELSE /\ pc' = "loop"
            /\ dvg_pkiller_list' = dvg_pkiller_lists(dvg)
    /\ UNCHANGED <<blk, irg, history, run, cls, nodes, available_regs,
                   arch_nonign_bs, abi_ign_bs, handled, live_out, visited,
                   consumer_list, descendant_list, pkiller_list,
                   kill_value_list, parent_list, killer, chain,
                   dvg_user_list, cbc_set, dvg, chains, sat_vals, serVars,
                   auxVars>>

\* The loop test of perform_value_serialization_heuristic and the call of
\* compute_best_admissible_serialization: its loops run over val_arr, which
\* holds the saturating values in the order of the nodeset.
admissible_serializations ==
    /\ pc = "loop"
    /\ loop_test(sat_vals, available_regs)
    /\ \E arr \in Orders(sat_vals.values) : \E ndebug \in BOOLEAN :
          LET st == ser_locals(arr, dvg_pkiller_list, available_regs, ndebug)
          IN  /\ val_arr' = arr
              /\ ser_edges' = Range(st.evaluated)
              /\ best_ser' = ser_result(st)
    /\ pc' = "ser_done"
    /\ UNCHANGED <<blk, irg, history, run, cls, nodes, available_regs,
                   arch_nonign_bs, abi_ign_bs, recVars, cbc_set, dvg,
                   chains, sat_vals, dvg_desc, heights, auxVars>>

\* The edges the caller can read from the result: the edge it holds, or,
\* when the function returned an edge it never assigned, whatever the
\* stack held (NULL stands for a pointer that is no node).
ser_edge_read(res) ==
    IF res.src # NULL
    THEN {<<res.src, res.tgt>>}
    ELSE {Unassigned} \cup (Vals \X Vals)

\* The loop body after the call: the caller reads ser->edge->tgt without a
\* test for NULL, appends the source of the edge to the dvg_user_list of
\* its target, and inserts the edge into the DVG and, as a dependency edge,
\* into the graph.
insert_serialization ==
    /\ pc = "ser_done"
    /\ IF best_ser.status # "ser"
       THEN /\ pc' = "crashed"
            /\ UNCHANGED <<irg, dvg, dvg_user_list>>
       ELSE \E edge \in ser_edge_read(best_ser) :
              IF edge = Unassigned
              THEN /\ pc' = "crashed"
                   /\ UNCHANGED <<irg, dvg, dvg_user_list>>
              ELSE /\ dvg_user_list' =
                         [dvg_user_list EXCEPT ![edge[2]] = Append(@, edge[1])]
                   /\ dvg' = [dvg EXCEPT !.edges = @ \cup {edge}]
                   /\ irg' = [irg EXCEPT !.deps = @ \cup {edge}]
                   /\ pc' = "heights"
    /\ UNCHANGED <<blk, history, run, cls, nodes, available_regs,
                   arch_nonign_bs, abi_ign_bs, handled, live_out, visited,
                   consumer_list, descendant_list, pkiller_list,
                   kill_value_list, parent_list, killer, chain,
                   dvg_pkiller_list, cbc_set, chains, sat_vals, serVars,
                   auxVars>>

\* heights_recompute_block(rss->h, rss->block): the heights know the
\* dependency edges of the graph.
heights_recompute_block(h, deps) == deps

\* The loop body that goes on to the antichain with the heights as they
\* were.
recompute_heights_mut ==
    /\ pc = "heights"
    /\ pc' = "antichain"
    /\ UNCHANGED <<blk, irg, history, run, cls, nodes, available_regs,
                   arch_nonign_bs, abi_ign_bs, recVars, cbc_set, dvg,
                   chains, sat_vals, serVars, auxVars>>

\* "rss->max_height = heights_recompute_block(...)", after which the loop
\* body computes the antichain anew.
recompute_heights ==
    /\ pc = "heights"
    /\ heights' = heights_recompute_block(heights, irg.deps)
    /\ pc' = "antichain"
    /\ UNCHANGED <<blk, irg, history, run, cls, nodes, available_regs,
                   arch_nonign_bs, abi_ign_bs, recVars, cbc_set, dvg,
                   chains, sat_vals, dvg_desc, val_arr, ser_edges, best_ser,
                   auxVars>>

SerNext ==
    \/ build_dvg_pkiller_list
    \/ admissible_serializations
    \/ insert_serialization
    \/ recompute_heights
    \/ compute_maximal_antichain
    \/ heuristic_finished

SerSpec == SerInit /\ [][SerNext]_vars

BehindArray == 0 .. MaxKey + 1

\* The while loop of bsearch_for_index; reads holds the indices idx of the
\* elements arr[idx] read so far (counted from 0, as in the source).
RECURSIVE bsearch_loop(_, _, _, _, _)
bsearch_loop(key, arr, left, right, reads) ==
    IF ~(right >= left)
    THEN {[ret |-> -1, reads |-> reads]}
    ELSE LET idx == (left + right) \div 2
             elem == IF idx < Len(arr) THEN {arr[idx + 1]} ELSE BehindArray
         IN  UNION {
               IF key < x
               THEN bsearch_loop(key, arr, left, idx - 1, reads \cup {idx})
               ELSE IF key > x
               THEN bsearch_loop(key, arr, idx + 1, right, reads \cup {idx})
               ELSE {[ret |-> idx, reads |-> reads \cup {idx}]}
               : x \in elem}

\* bsearch_for_index(key, arr, len, force): left = 0 and right = len.
bsearch_for_index(key, arr, len) == bsearch_loop(key, arr, 0, len, {})

\* The sorted arrays of node indices (idx_map after qsort) and the keys.
SortedArrays == {SortedSeq(S) : S \in SUBSET (1 .. MaxKey)}
Keys == 0 .. MaxKey + 1

BsInit ==
    /\ blk = StraightLine
    /\ EntryState
    /\ pc = "bsearch"
    /\ \E key \in Keys : \E arr \in SortedArrays : \E force \in {0, 1} :
          bsearch = [NoSearch EXCEPT !.key = key, !.arr = arr,
                                     !.force = force]
    /\ walk = NoWalk
    /\ funccalls = NoFunccalls

\* One call of bsearch_for_index.  A key that is not found with force set
\* fails the assertion, or returns -1 when assertions are compiled out.
bsearch_call ==
    /\ pc = "bsearch"
    /\ \E o \in bsearch_for_index(bsearch.key, bsearch.arr,
                                  Len(bsearch.arr)) :
       \E ndebug \in BOOLEAN :
          bsearch' = [bsearch EXCEPT
                        !.reads = o.reads,
                        !.ret = o.ret,
                        !.status = IF o.ret = -1 /\ bsearch.force = 1
                                      /\ ~ndebug
                                   THEN "assert" ELSE "returned"]
    /\ pc' = "bsearch_done"
    /\ UNCHANGED <<blk, irg, history, run, cls, nodes, available_regs,
                   arch_nonign_bs, abi_ign_bs, recVars, cbc_set, dvg,
                   chains, sat_vals, serVars, fcVars>>

BsNext == bsearch_call

BsSpec == BsInit /\ [][BsNext]_vars

\* C30: bsearch_for_index reads only elements arr[i] with 0 <= i < len,
\* whatever the key, and with force = 0 it returns -1 for a key that is not
\* in the array.
C30_ReadsInBounds ==
    pc = "bsearch_done" =>
        /\ bsearch.reads \subseteq 0 .. Len(bsearch.arr) - 1
        /\ (bsearch.force = 0 /\ bsearch.key \notin Range(bsearch.arr)) =>
               bsearch.status = "returned" /\ bsearch.ret = -1

\* C25: a successor of a candidate n that lives in the block and has
\* control mode is neither on the consumer list nor on the descendant list
\* of n; n is marked live_out and the sink is on both lists.
C25_ControlSuccessor ==
    \A n \in Handled :
        \A x \in OutEdges(n) :
            (InBlock(x) /\ get_irn_mode(x) = "X" /\ ~arch_irn_is_ignore(x)) =>
                /\ ~plist_has_value(consumer_list[n], x)
                /\ ~plist_has_value(descendant_list[n], x)
                /\ live_out[n]
                /\ plist_has_value(consumer_list[n], Sink)
                /\ plist_has_value(descendant_list[n], Sink)

\* C26: after collect_node_info no consumer is twice on the consumer list
\* of a candidate (the sorted consumer array holds the entries of the list).
C26_ConsumersOnce ==
    \A n \in Handled :
        \A c \in Range(consumer_list[n]) : Count(consumer_list[n], c) = 1

\* C28: every parent of every component of the bipartite decomposition of
\* a class is a candidate of that class, whatever the records hold from the
\* classes of the block processed before.
C28_ParentsOfCurrentClass ==
    AfterDecomposition =>
        \A c \in cbc_set : c.parents \subseteq nodes \ {Sink}

LoopInit ==
    /\ SerInit
    /\ Cardinality(dvg.edges) <= 3
    /\ Cardinality(sat_vals.values) = 2

LoopSpec == LoopInit /\ [][SerNext]_vars

\* C23: in the serialization loop the heights are recomputed after every
\* insertion of a dependency edge, before the antichain is computed anew
\* and before the next round evaluates a candidate: whenever the antichain
\* is about to be computed or the loop test is about to be made, the
\* heights know every dependency edge of the graph.
C23_HeightsRecomputed ==
    pc \in {"antichain", "loop"} => heights = irg.deps

\* After an insertion, the loop is about to go into another round.
C23_Witness ==
    /\ pc = "loop"
    /\ irg.deps # {}
    /\ heights = irg.deps
    /\ loop_test(sat_vals, available_regs)

unknown_entity == "unknown_entity"
Entities == {"f_plain", "f_const", "f_pure", "f_loop"}

get_entity_additional_properties(ent) ==
    CASE ent = "f_plain" -> {}
      [] ent = "f_const" -> {"const"}
      [] ent = "f_pure" -> {"pure"}
      [] ent = "f_loop" -> {"const", "has_loop"}

RECURSIVE SeqsUpTo(_, _)
SeqsUpTo(S, n) ==
    IF n = 0
    THEN {<<>>}
    ELSE LET shorter == SeqsUpTo(S, n - 1)
         IN  shorter \cup {Append(q, x) : q \in shorter, x \in S}

\* The nodes the walker can be called with: a Call by the kind of its
\* pointer, a Proj by its predecessor and its number, any other node.
WalkNodes ==
    {[NoNode EXCEPT !.op = "Call", !.ptr = "SymConst", !.ent = e]
        : e \in Entities}
    \cup {[NoNode EXCEPT !.op = "Call", !.ptr = "Sel", !.callees = cs]
        : cs \in SeqsUpTo(Entities \cup {unknown_entity}, MaxCallees)}
    \cup {[NoNode EXCEPT !.op = "Call", !.ptr = "Other"]}
    \cup {[NoNode EXCEPT !.op = "Proj", !.pred_is_call = c, !.proj = pn]
        : c \in BOOLEAN,
          pn \in {"pn_Call_M", "pn_Call_X_except", "pn_Call_X_regular",
                  "pn_Call_T_result"}}
    \cup {[NoNode EXCEPT !.op = "Other"]}

\* The loop over the callees of a Call through a Sel, from callee i on
\* (counted from 1): ret is set when the walker returns from inside it.
RECURSIVE sel_callees_mut(_, _, _, _)
sel_callees_mut(callees, i, and_prop, or_prop) ==
    IF i > Len(callees)
    THEN [ret |-> FALSE, prop |-> and_prop \cup (or_prop \cap {"has_loop"})]
    ELSE LET prop == IF callees[i] = unknown_entity
                     THEN {"const", "pure"}
                     ELSE get_entity_additional_properties(callees[i])
         IN  IF and_prop \cap prop = {}
             THEN [ret |-> TRUE, prop |-> {}]
             ELSE sel_callees_mut(callees, i + 1, and_prop \cap prop,
                                  or_prop \cap prop)
RECURSIVE sel_callees(_, _, _, _)
sel_callees(callees, i, and_prop, or_prop) ==
    IF i > Len(callees)
    THEN [ret |-> FALSE, prop |-> and_prop \cup (or_prop \cap {"has_loop"})]
    ELSE IF callees[i] = unknown_entity
    THEN [ret |-> TRUE, prop |-> {}]
    ELSE LET prop == get_entity_additional_properties(callees[i])
         IN  IF and_prop \cap prop = {}
             THEN [ret |-> TRUE, prop |-> {}]
             ELSE sel_callees(callees, i + 1, and_prop \cap prop,
                              or_prop \cap prop)

\* The properties the walker finds for a Call, the counter it increments,
\* and whether it returns before it has put the Call on a list.
call_properties(w, node) ==
    IF node.ptr = "SymConst"
    THEN LET prop == get_entity_additional_properties(node.ent)
         IN  [ret |-> prop \cap {"const", "pure"} = {}, prop |-> prop,
              counter |-> "SymConst"]
    ELSE IF w.closed_world /\ node.ptr = "Sel" /\ w.callee_info
    THEN IF Len(node.callees) = 0
         THEN [ret |-> TRUE, prop |-> {}, counter |-> "Sel"]
         ELSE LET r == sel_callees(node.callees, 1, {"const", "pure"}, {})
              IN  [ret |-> r.ret, prop |-> r.prop, counter |-> "Sel"]
    ELSE [ret |-> TRUE, prop |-> {}, counter |-> "none"]

\* collect_const_and_pure_calls(node, env) for the node with the index
\* irn; w holds the environment and the links of the nodes.
collect_const_and_pure_calls(w, irn, node) ==
    IF node.op = "Call"
    THEN LET r == call_properties(w, node)
             counted ==
                 [w EXCEPT
                    !.link[irn] = NULL,
                    !.n_calls_SymConst =
                        IF r.counter = "SymConst" THEN @ + 1 ELSE @,
                    !.n_calls_Sel =
                        IF r.counter = "Sel" THEN @ + 1 ELSE @]
         IN  IF r.ret
             THEN [w EXCEPT !.link[irn] = NULL]
             ELSE IF "pure" \in r.prop
             THEN [counted EXCEPT !.link[irn] = w.pure_call_list,
                                  !.pure_call_list = irn]
             ELSE IF "has_loop" \in r.prop
             THEN [counted EXCEPT !.link[irn] = w.nonfloat_const_call_list,
                                  !.nonfloat_const_call_list = irn]
             ELSE [counted EXCEPT !.link[irn] = w.float_const_call_list,
                                  !.float_const_call_list = irn]
    ELSE IF node.op = "Proj"
    THEN IF ~node.pred_is_call
         THEN w
         ELSE IF node.proj \in {"pn_Call_M", "pn_Call_X_except",
                                "pn_Call_X_regular"}
         THEN [w EXCEPT !.link[irn] = w.proj_list, !.proj_list = irn]
         ELSE w
    ELSE w

\* The nodes of the list that starts at head, by their links.
RECURSIVE link_list(_, _, _)
link_list(link, head, fuel) ==
    IF head \notin DOMAIN link \/ fuel = 0
    THEN {}
    ELSE {head} \cup link_list(link, link[head], fuel - 1)

\* The first loop of fix_const_call_lists: the link of every Call of
\* float_const_call_list gets the memory input of the Call, written -irn
\* for the Call irn.
fix_const_call_lists(w) ==
    [w EXCEPT !.link =
        [irn \in DOMAIN w.link |->
            IF irn \in link_list(w.link, w.float_const_call_list, MaxWalk)
            THEN 0 - irn
            ELSE w.link[irn]]]

\* handle_const_Calls, about to walk the first graph of the program: the
\* counters are 0 and the lists are empty.
WalkInit ==
    /\ blk = StraightLine
    /\ EntryState
    /\ pc = "walk"
    /\ bsearch = NoSearch
    /\ funccalls = NoFunccalls
    /\ \E cw \in BOOLEAN : \E ci \in BOOLEAN :
          walk = [NoWalk EXCEPT !.status = "walking",
                                !.closed_world = cw, !.callee_info = ci]

fcFrame ==
    <<blk, irg, history, run, pc, cls, nodes, available_regs,
      arch_nonign_bs, abi_ign_bs, recVars, cbc_set, dvg, chains, sat_vals,
      serVars, bsearch>>

\* irg_walk_graph calls the walker with the next node of the graph.
walk_node ==
    /\ walk.status = "walking"
    /\ walk.n < MaxWalk
    /\ \E node \in WalkNodes :
          walk' = [collect_const_and_pure_calls(walk, walk.n + 1, node)
                      EXCEPT !.n = walk.n + 1, !.last = node]
    /\ UNCHANGED <<fcFrame, funccalls>>

\* The walk of the graph is over: fix_const_call_lists is called when
\* float_const_call_list is not empty.
walk_finished ==
    /\ walk.status = "walking"
    /\ walk' = [(IF walk.float_const_call_list # NULL
                 THEN fix_const_call_lists(walk) ELSE walk)
                   EXCEPT !.status = "walked"]
    /\ UNCHANGED <<fcFrame, funccalls>>

WalkNext == walk_node \/ walk_finished

WalkSpec == WalkInit /\ [][WalkNext]_vars

\* A Call through a Sel with no callee, or with unknown_entity among its
\* callees.
GivenUp(node) ==
    /\ node.op = "Call"
    /\ node.ptr = "Sel"
    /\ (node.callees = <<>> \/ unknown_entity \in Range(node.callees))

\* C27: when the walker is called with a Call through a Sel that has no
\* callee or has unknown_entity among its callees, the three lists of
\* const and pure calls and the two counters stay as they are, the link of
\* the Call is NULL, the Call is on none of the lists, and the walk goes
\* on.
C27_SelCallGivenUp ==
    [][(walk'.n = walk.n + 1 /\ GivenUp(walk'.last)) =>
          /\ walk'.float_const_call_list = walk.float_const_call_list
          /\ walk'.nonfloat_const_call_list = walk.nonfloat_const_call_list
          /\ walk'.pure_call_list = walk.pure_call_list
          /\ walk'.n_calls_SymConst = walk.n_calls_SymConst
          /\ walk'.n_calls_Sel = walk.n_calls_Sel
          /\ walk'.link[walk'.n] = NULL
          /\ \A head \in {walk'.float_const_call_list,
                          walk'.nonfloat_const_call_list,
                          walk'.pure_call_list} :
                 walk'.n \notin link_list(walk'.link, head, MaxWalk)
          /\ walk'.status = "walking"]_vars

\* A const call is on its list, and the walker has then given up a Call
\* whose first callee is a const function and whose second callee is
\* unknown_entity.
C27_Witness ==
    /\ walk.status = "walking"
    /\ walk.closed_world /\ walk.callee_info
    /\ walk.n = 2
    /\ walk.float_const_call_list = 1
    /\ walk.n_calls_SymConst = 1
    /\ walk.link[2] = NULL
    /\ walk.last.ptr = "Sel"
    /\ walk.last.callees = <<"f_const", unknown_entity>>

\* --------------------- funccall.c: the detection of the function properties
\* An operation on the memory chain of a graph, in the order of the
\* program: a Call of the graph irg or a Load, with or without an
\* exception Proj that is a predecessor of the end block.  Every graph has
\* one Return, the last predecessor of its end block, without a result.
MemOps == [irg : Graphs \cup {NULL}, x : BOOLEAN]

\* The programs of the graphs 1 .. g with calls operations at most.
RECURSIVE ProgramsUpTo(_, _)
ProgramsUpTo(g, calls) ==
    IF g = 0
    THEN {<<>>}
    ELSE UNION {{Append(p, ops) : p \in ProgramsUpTo(g - 1, calls - Len(ops))}
                : ops \in SeqsUpTo(MemOps, calls)}

Programs == ProgramsUpTo(MaxGraphs, MaxCalls)

\* update_property(orig_prop, call_prop)
update_property(orig_prop, call_prop) ==
    (orig_prop \cap call_prop)
        \cup ((orig_prop \cup call_prop) \cap {"temporary"})

\* max_property(a, b): const is the bit below pure.
max_property(a, b) ==
    LET t == (a \cup b) \cap {"temporary"}
        a0 == a \ {"temporary"}
        b0 == b \ {"temporary"}
        rank(p) == IF "pure" \in p THEN 2 ELSE IF "const" \in p THEN 1 ELSE 0
    IN  IF a0 = {} \/ b0 = {}
        THEN {}
        ELSE (IF rank(a0) > rank(b0) THEN a0 ELSE b0) \cup t

\* The head of check_nothrow_or_malloc(irg, top) and of
\* check_const_or_pure_function(irg, top): early is set when the function
\* returns value before it marks the graph busy.
check_entry(fc, g) ==
    IF fc.status = "nothrow"
    THEN IF g \in fc.ready_set
         THEN [early |-> TRUE, value |-> fc.props[g]]
         ELSE IF g \in fc.busy_set
         THEN [early |-> TRUE,
               value |-> {"temporary", "malloc", "nothrow"}]
         ELSE [early |-> FALSE, value |-> {"nothrow"}]
    ELSE IF "const" \in fc.props[g]
         THEN [early |-> TRUE, value |-> {"const"}]
         ELSE IF "pure" \in fc.props[g]
         THEN [early |-> TRUE, value |-> {"pure"}]
         ELSE IF g \in fc.ready_set \/ g \in fc.busy_set
         THEN [early |-> TRUE, value |-> {}]
         ELSE [early |-> FALSE, value |-> {"const"}]

\* SET_IRG_BUSY and the invocation that goes on: its graph, top, the
\* operation it looks at next (from the last to the first; 0 when its loop
\* is left) and curr_prop, or the mode of follow_mem_.
enter(fc, g, top, entry) ==
    [fc EXCEPT
       !.busy_set = @ \cup {g},
       !.stack = Append(@, [irg |-> g, top |-> top, j |-> Len(fc.ops[g]),
                            prop |-> entry.value])]

\* The invocation on top of the stack has the value of a Call it looked
\* at, or has looked at another operation: prop is its new curr_prop or
\* mode.  Its loop is left when nothing is left of the property.
after_op(fc, prop) ==
    LET n == Len(fc.stack)
        left == IF fc.status = "nothrow"
                THEN prop \ {"temporary"} = {}
                ELSE prop = {}
    IN  [fc EXCEPT !.stack[n].prop = prop,
                   !.stack[n].j = IF left THEN 0 ELSE @ - 1]

\* What the caller does with the value a callee returned.
call_value(fc, value) ==
    LET f == fc.stack[Len(fc.stack)]
    IN  IF fc.status = "nothrow"
        THEN update_property(f.prop, value \cup {"malloc"})
        ELSE max_property(f.prop, value)

\* The tail of the two functions for the invocation f: the property it
\* returns.
check_result(fc, f) ==
    IF fc.status = "nothrow"
    THEN f.prop
    ELSE IF f.prop = {}
    THEN {}
    ELSE IF \E k \in 1 .. Len(fc.ops[f.irg]) : fc.ops[f.irg][k].x
    THEN {}
    ELSE max_property({"const"}, max_property({"const"}, f.prop))

\* optimize_funccalls has allocated the two sets and is about to check the
\* first graph.
FcInit ==
    /\ blk = StraightLine
    /\ EntryState
    /\ pc = "funccalls"
    /\ bsearch = NoSearch
    /\ walk = NoWalk
    /\ \E ops \in Programs :
          funccalls = [NoFunccalls EXCEPT !.status = "nothrow", !.ops = ops]

\* The loops of optimize_funccalls call the check of the phase for the
\* next graph with top set.
top_level_call ==
    /\ funccalls.status \in {"nothrow", "const"}
    /\ funccalls.stack = <<>>
    /\ funccalls.i <= MaxGraphs
    /\ LET g == funccalls.i
           entry == check_entry(funccalls, g)
       IN  funccalls' = IF entry.early
                        THEN [funccalls EXCEPT !.i = @ + 1]
                        ELSE enter(funccalls, g, TRUE, entry)
    /\ UNCHANGED <<fcFrame, walk>>

\* The invocation under way looks at the next operation of its graph.
look_at_operation ==
    /\ funccalls.stack # <<>>
    /\ LET fc == funccalls
           f == fc.stack[Len(fc.stack)]
           op == fc.ops[f.irg][f.j]
       IN  /\ f.j > 0
           /\ funccalls' =
                IF fc.status = "nothrow"
                THEN IF ~op.x \/ "nothrow" \notin f.prop
                     THEN after_op(fc, f.prop)
                     ELSE IF op.irg = NULL
                     THEN after_op(fc, f.prop \ {"nothrow"})
                     ELSE IF op.irg = f.irg
                     THEN after_op(fc, f.prop)
                     ELSE LET entry == check_entry(fc, op.irg)
                          IN  IF entry.early
                              THEN after_op(fc, call_value(fc, entry.value))
                              ELSE enter(fc, op.irg, FALSE, entry)
                ELSE IF op.irg = NULL
                     THEN after_op(fc, max_property(f.prop, {"pure"}))
                     ELSE LET entry == check_entry(fc, op.irg)
                          IN  IF entry.early
                              THEN after_op(fc, call_value(fc, entry.value))
                              ELSE enter(fc, op.irg, FALSE, entry)
    /\ UNCHANGED <<fcFrame, walk>>

\* The tail of the two functions for the invocation on top of the stack,
\* which returns res: the properties of the graph and its ready bit are
\* set as the phase says, its busy bit is cleared.
check_tail_mut(fc, res) ==
    LET n == Len(fc.stack)
        f == fc.stack[n]
        sure == IF fc.status = "nothrow"
                THEN res # {} /\ (f.top \/ "temporary" \notin res)
                ELSE f.top /\ res # {}
    IN  [fc EXCEPT
           !.props[f.irg] = IF sure THEN @ \cup (res \ {"temporary"}) ELSE @,
           !.ready_set = IF f.top \/ (fc.status = "nothrow" /\ sure)
                         THEN @ \cup {f.irg} ELSE @,
           !.busy_set = IF f.top THEN @ \ {f.irg} ELSE @,
           !.stack = SubSeq(@, 1, n - 1)]
check_tail(fc, res) ==
    LET n == Len(fc.stack)
        f == fc.stack[n]
        sure == IF fc.status = "nothrow"
                THEN res # {} /\ (f.top \/ "temporary" \notin res)
                ELSE f.top /\ res # {}
    IN  [fc EXCEPT
           !.props[f.irg] = IF sure THEN @ \cup (res \ {"temporary"}) ELSE @,
           !.ready_set = IF f.top \/ (fc.status = "nothrow" /\ sure)
                         THEN @ \cup {f.irg} ELSE @,
           !.busy_set = @ \ {f.irg},
           !.stack = SubSeq(@, 1, n - 1)]

\* The invocation under way has left its loop and returns: to the loop of
\* optimize_funccalls, or to the invocation that called it.
check_returns ==
    /\ funccalls.stack # <<>>
    /\ LET fc == funccalls
           n == Len(fc.stack)
           f == fc.stack[n]
           res == check_result(fc, f)
           popped == check_tail(fc, res)
       IN  /\ f.j = 0
           /\ funccalls' =
                IF n = 1
                THEN [popped EXCEPT !.i = @ + 1]
                ELSE after_op(popped, call_value(popped, res))
    /\ UNCHANGED <<fcFrame, walk>>

\* handle_nothrow_Calls between the two loops: the exception Projs of the
\* Calls of nothrow functions are removed, and the two sets are cleared.
handle_nothrow_Calls ==
    /\ funccalls.status = "nothrow"
    /\ funccalls.stack = <<>>
    /\ funccalls.i > MaxGraphs
    /\ funccalls' =
         [funccalls EXCEPT
            !.status = "const",
            !.i = 1,
            !.ops = [g \in Graphs |->
                       [k \in 1 .. Len(funccalls.ops[g]) |->
                          LET op == funccalls.ops[g][k]
                          IN  IF op.irg # NULL
                                 /\ "nothrow" \in funccalls.props[op.irg]
                              THEN [op EXCEPT !.x = FALSE]
                              ELSE op]],
            !.ready_set = {},
            !.busy_set = {}]
    /\ UNCHANGED <<fcFrame, walk>>

\* handle_const_Calls after the second loop, and the two sets are freed.
funccalls_done ==
    /\ funccalls.status = "const"
    /\ funccalls.stack = <<>>
    /\ funccalls.i > MaxGraphs
    /\ funccalls' = [funccalls EXCEPT !.status = "done"]
    /\ UNCHANGED <<fcFrame, walk>>

FcNext ==
    \/ top_level_call
    \/ look_at_operation
    \/ check_returns
    \/ handle_nothrow_Calls
    \/ funccalls_done

FcSpec == FcInit /\ [][FcNext]_vars

\* The graphs with an invocation under way that has marked them busy.
UnderWay == {funccalls.stack[k].irg : k \in 1 .. Len(funccalls.stack)}

\* C29: when a top-level call of one of the two checks has returned no
\* graph is marked busy, and a graph is marked busy only while the
\* invocation that marked it is under way: every invocation clears the
\* bit it has set when it returns.
C29_NoBusyLeft ==
    /\ funccalls.stack = <<>> => funccalls.busy_set = {}
    /\ funccalls.busy_set \subseteq UnderWay

\* Both loops are over; in the second one a graph was found to call
\* itself through another graph.
C29_Witness ==
    /\ funccalls.status = "done"
    /\ funccalls.busy_set = {}
    /\ funccalls.ready_set = Graphs
    /\ \E g \in Graphs : \E h \in Graphs \ {g} :
          /\ \E k \in 1 .. Len(funccalls.ops[g]) : funccalls.ops[g][k].irg = h
          /\ \E k \in 1 .. Len(funccalls.ops[h]) : funccalls.ops[h][k].irg = g

====
